---- MODULE Spec2Model ----
(***************************************************************************)
(* Model of the lead relevancy evaluator (src/lead_match.py):              *)
(*   evaluate_product_relevancy  - credential check, model invocation       *)
(*                                 under the tenacity retry policy, score   *)
(*                                 extraction and clamping;                 *)
(*   evaluate_multiple_leads     - the sequential batch loop with pacing    *)
(*                                 and per-lead exception handling.         *)
(* One call (single-lead or batch) is followed from entry to return.  The   *)
(* external completion service is the environment: each invocation attempt  *)
(* draws its outcome from Outcomes.                                         *)
(***************************************************************************)
EXTENDS Integers, Sequences, FiniteSets, TLC

\* ------------------------------------------------------------------------
\* Bounds of the model
\* ------------------------------------------------------------------------
\* Longest lead list handed to evaluate_multiple_leads.
MaxLeads == 2

\* Longest generated response text of the score extraction check.
MaxTextLen == 3

\* ------------------------------------------------------------------------
\* Program constants
\* ------------------------------------------------------------------------
\* stop_after_attempt(3)
MaxAttempts == 3
\* wait_exponential(multiplier=1, min=4, max=30)
WaitMultiplier == 1
WaitMin == 4
WaitMax == 30
\* after=lambda retry_state: time.sleep(2)
AfterSleep == 2
\* time.sleep(2) between two leads of a batch
LeadPause == 2
\* max(0, min(10, score))
ScoreLo == 0
ScoreHi == 10

\* ------------------------------------------------------------------------
\* Numbers.  A Python float is modelled by an exact rational num/den in
\* lowest terms, or by nan / +inf / -inf.  Comparisons with 0 and 10 are the
\* only operations the program applies, and rounding to the nearest double is
\* monotone, so the rational gives the same comparison results.
\* ------------------------------------------------------------------------
RECURSIVE GCD(_, _)
GCD(a, b) == IF b = 0 THEN a ELSE GCD(b, a % b)

Abs(n) == IF n < 0 THEN -n ELSE n

RECURSIVE Pow10(_)
Pow10(n) == IF n = 0 THEN 1 ELSE 10 * Pow10(n - 1)

Fin(n, d) ==
    LET g == GCD(Abs(n), d)
    IN  [kind |-> "fin", num |-> n \div g, den |-> d \div g]

NaN == [kind |-> "nan", num |-> 0, den |-> 1]
Inf(neg) == [kind |-> "inf", num |-> IF neg THEN -1 ELSE 1, den |-> 1]
ValueError == [kind |-> "ValueError", num |-> 0, den |-> 1]

\* The float 0.0 of "return 0.0" and the ints 0 and 10 of the clamp.
Zero == Fin(0, 1)
Lo == Fin(ScoreLo, 1)
Hi == Fin(ScoreHi, 1)

\* Python's a < b on floats: every comparison with nan is False.
Less(a, b) ==
    IF a.kind = "nan" \/ b.kind = "nan" THEN FALSE
    ELSE IF a.kind = "inf" THEN a.num < 0 /\ ~(b.kind = "inf" /\ b.num < 0)
    ELSE IF b.kind = "inf" THEN b.num > 0
    ELSE a.num * b.den < b.num * a.den

\* Python's min(a, b): b when b < a, otherwise a.
PyMin(a, b) == IF Less(b, a) THEN b ELSE a
\* Python's max(a, b): b when b > a, otherwise a.
PyMax(a, b) == IF Less(a, b) THEN b ELSE a

\* max(0, min(10, score))
Clamp(score) == PyMax(Lo, PyMin(Hi, score))

\* ------------------------------------------------------------------------
\* Text.  A response text is a sequence of one-character strings.
\* ------------------------------------------------------------------------
Digits == {"0", "1", "2", "3", "4", "5", "6", "7", "8", "9"}

DigitVal(c) ==
    CASE c = "0" -> 0 [] c = "1" -> 1 [] c = "2" -> 2 [] c = "3" -> 3
      [] c = "4" -> 4 [] c = "5" -> 5 [] c = "6" -> 6 [] c = "7" -> 7
      [] c = "8" -> 8 [] c = "9" -> 9

Whitespace == {" ", "\n", "\t"}

\* float() matches inf / infinity / nan and the exponent marker in any case.
Lower(c) ==
    CASE c = "I" -> "i" [] c = "N" -> "n" [] c = "F" -> "f" [] c = "A" -> "a"
      [] c = "T" -> "t" [] c = "Y" -> "y" [] c = "E" -> "e"
      [] OTHER -> c

RECURSIVE lstrip(_)
lstrip(s) == IF s # <<>> /\ Head(s) \in Whitespace THEN lstrip(Tail(s)) ELSE s

RECURSIVE rstrip(_)
rstrip(s) ==
    IF s # <<>> /\ s[Len(s)] \in Whitespace
    THEN rstrip(SubSeq(s, 1, Len(s) - 1))
    ELSE s

\* str.strip()
strip(s) == rstrip(lstrip(s))

IsDigit(c) == c \in Digits

\* A digit group of a float literal: digits, with single underscores allowed
\* between two digits.
AllDigits(s) ==
    \A k \in 1..Len(s) :
        \/ s[k] \in Digits
        \/ /\ s[k] = "_"
           /\ 1 < k /\ k < Len(s)
           /\ s[k - 1] \in Digits /\ s[k + 1] \in Digits

RECURSIVE DigitsValue(_)
DigitsValue(s) ==
    IF s = <<>> THEN 0
    ELSE IF s[Len(s)] = "_" THEN DigitsValue(SubSeq(s, 1, Len(s) - 1))
    ELSE DigitsValue(SubSeq(s, 1, Len(s) - 1)) * 10 + DigitVal(s[Len(s)])

\* Position of the first character of s that is c, 0 when there is none.
IndexOf(s, c) ==
    IF \E k \in 1..Len(s) : s[k] = c
    THEN CHOOSE k \in 1..Len(s) : s[k] = c /\ \A j \in 1..(k - 1) : s[j] # c
    ELSE 0

\* float(text):  [sign] digits [. [digits]] [e [sign] digits],  [sign] . digits
\* [e [sign] digits]  and  [sign] inf | infinity | nan, in any letter case.
\* Anything else raises ValueError.
ParseFloat(t) ==
    LET s      == [k \in 1..Len(t) |-> Lower(t[k])]
        signed == s # <<>> /\ s[1] \in {"+", "-"}
        neg    == signed /\ s[1] = "-"
        body   == IF signed THEN Tail(s) ELSE s
        e      == IndexOf(body, "e")
        mant   == IF e = 0 THEN body ELSE SubSeq(body, 1, e - 1)
        expo   == IF e = 0 THEN <<>> ELSE SubSeq(body, e + 1, Len(body))
        esign  == expo # <<>> /\ expo[1] \in {"+", "-"}
        eneg   == esign /\ expo[1] = "-"
        edig   == IF esign THEN Tail(expo) ELSE expo
        dot    == IndexOf(mant, ".")
        ip     == IF dot = 0 THEN mant ELSE SubSeq(mant, 1, dot - 1)
        fp     == IF dot = 0 THEN <<>> ELSE SubSeq(mant, dot + 1, Len(mant))
        fdigits == Len(SelectSeq(fp, IsDigit))
        mantOk == AllDigits(ip) /\ AllDigits(fp) /\ Len(ip) + Len(fp) > 0
        expOk  == e = 0 \/ (edig # <<>> /\ AllDigits(edig))
        m      == DigitsValue(ip \o fp)
        x      == IF e = 0 THEN 0 ELSE DigitsValue(edig)
        n      == IF eneg THEN m ELSE m * Pow10(x)
        d      == IF eneg THEN Pow10(fdigits) * Pow10(x) ELSE Pow10(fdigits)
    IN  IF body \in { <<"i", "n", "f">>,
                      <<"i", "n", "f", "i", "n", "i", "t", "y">> }
        THEN Inf(neg)
        ELSE IF body = <<"n", "a", "n">> THEN NaN
        ELSE IF mantOk /\ expOk THEN Fin(IF neg THEN -n ELSE n, d)
        ELSE ValueError

\* ------------------------------------------------------------------------
\* The external completion service (openai, through langchain's ChatOpenAI)
\* ------------------------------------------------------------------------
\* Direct base class of each exception class model.invoke can raise.  In the
\* openai package RateLimitError, AuthenticationError and BadRequestError
\* derive from APIStatusError, which derives from APIError, as does
\* APIConnectionError.  RuntimeError stands for an exception from outside the
\* openai hierarchy.
ExcBase(cls) ==
    CASE cls = "RateLimitError"      -> "APIStatusError"
      [] cls = "AuthenticationError" -> "APIStatusError"
      [] cls = "BadRequestError"     -> "APIStatusError"
      [] cls = "APIStatusError"      -> "APIError"
      [] cls = "APIConnectionError"  -> "APIError"
      [] cls = "APIError"            -> "OpenAIError"
      [] cls = "OpenAIError"         -> "Exception"
      [] cls = "RuntimeError"        -> "Exception"
      [] cls = "RetryError"          -> "Exception"
      [] cls = "ValueError"          -> "Exception"
      [] cls = "KeyError"            -> "Exception"
      [] cls = "AttributeError"      -> "Exception"
      [] OTHER                       -> "BaseException"

\* isinstance(exception of class cls, target)
RECURSIVE IsInstance(_, _)
IsInstance(cls, target) ==
    IF cls = target THEN TRUE
    ELSE IF cls = "BaseException" THEN FALSE
    ELSE IsInstance(ExcBase(cls), target)

\* Exception classes an invocation attempt can end with: two transient ones,
\* one API failure that is not transient (BadRequestError has the same bases
\* and behaves alike) and one from outside the openai hierarchy.
InvokeErrors ==
    {"RateLimitError", "APIConnectionError", "AuthenticationError",
     "RuntimeError"}

\* The failures the specification calls transient (rate limiting, temporary
\* upstream error) and the ones it calls non-transient.
TransientErrors == {"RateLimitError", "APIConnectionError"}
NonTransientErrors == InvokeErrors \ TransientErrors

\* retry=retry_if_exception_type((RateLimitError, APIError))
RetryTypes == {"RateLimitError", "APIError"}
ShouldRetry(cls) == \E t \in RetryTypes : IsInstance(cls, t)

\* Variant of ShouldStop: the comparison is off by one.
ShouldStop_OffByOne(attempt) == attempt > MaxAttempts

\* stop=stop_after_attempt(3)
ShouldStop(attempt) == attempt >= MaxAttempts

\* wait=wait_exponential(multiplier=1, min=4, max=30), evaluated after the
\* failed attempt number attempt:  max(min, min(multiplier * 2^(attempt-1), max))
RECURSIVE Pow2(_)
Pow2(n) == IF n = 0 THEN 1 ELSE 2 * Pow2(n - 1)

Max2(a, b) == IF a > b THEN a ELSE b
Min2(a, b) == IF a < b THEN a ELSE b

WaitExponential(attempt) ==
    Max2(WaitMin, Min2(WaitMultiplier * Pow2(attempt - 1), WaitMax))

\* Response texts the service is taken to answer with.
ResponseTexts ==
    { <<" ", "7", ".", "5", "\n">>,
      <<"1", "2", ".", "0">>,
      <<"-", "3">>,
      <<"e", "x", "c", "e", "l", "l", "e", "n", "t", " ", "m", "a", "t", "c", "h">>,
      <<"n", "a", "n">> }

\* Outcome of one model.invoke(prompt): a message whose content is a text, a
\* message whose content is not a string (a list of content blocks), or an
\* exception.
NoOutcome == [kind |-> "none", text |-> <<>>, exc |-> "none"]
Outcomes ==
    [kind : {"text"}, text : ResponseTexts, exc : {"none"}]
    \cup {[kind |-> "nontext", text |-> <<>>, exc |-> "none"]}
    \cup [kind : {"raise"}, text : {<<>>}, exc : InvokeErrors]

\* ------------------------------------------------------------------------
\* Inputs
\* ------------------------------------------------------------------------
\* os.getenv("OPENAI_API_KEY"): unset, set to the empty string, or set.
ApiKeys == {"None", "", "sk-key"}

LeadIds == {1, 2}
\* A lead dict; the second form is a dict without the 'lead_id' key (the
\* batch function takes plain dicts and reads the key with .get()).
Leads ==
    [name : {"Ann"}, lead_id : LeadIds] \cup [name : {"Ann"}]

RECURSIVE SeqsUpTo(_, _)
SeqsUpTo(S, n) ==
    IF n = 0 THEN {<<>>}
    ELSE LET shorter == SeqsUpTo(S, n - 1)
         IN  shorter \cup {Append(q, x) : q \in {r \in shorter : Len(r) = n - 1}, x \in S}

\* ------------------------------------------------------------------------
\* State
\* ------------------------------------------------------------------------
VARIABLES
    api_key,         \* value of the OPENAI_API_KEY environment variable
    mode,            \* "single": evaluate_product_relevancy is the entry point;
                     \* "batch": evaluate_multiple_leads is
    leads_data,      \* the lead list (one lead in single mode)
    pc,              \* position of the call
    i,               \* 1-based position of the current lead (enumerate index + 1)
    attempt_number,  \* tenacity's retry_state.attempt_number
    hist,            \* outcomes of the attempts of the current evaluation
    outcome,         \* outcome of the latest attempt
    eval_ret,        \* how the latest evaluate_product_relevancy call ended
    results,         \* the batch's results list
    call_status,     \* "running", "returned" or "raised" for the entry call
    log,             \* attempts, sleeps and appends so far, in order
    response,        \* HTTP response of the handler that made the entry call
    health           \* a GET /health request: not sent, pending or answered

vars == <<api_key, mode, leads_data, pc, i, attempt_number, hist, outcome,
          eval_ret, results, call_status, log, response, health>>

NoRet == [kind |-> "none", val |-> Zero, exc |-> "none"]
Returned(v) == [kind |-> "value", val |-> v, exc |-> "none"]
Raised(cls) == [kind |-> "raise", val |-> Zero, exc |-> cls]

\* str(e) of the exceptions that can leave the evaluator.
ExcMessage(cls) ==
    IF cls = "ValueError"
    THEN "OPENAI_API_KEY is not set in the environment variables."
    ELSE cls

NoResponse == [status |-> 0, detail |-> "", body |-> <<>>]
NoHealth == [state |-> "none", body |-> "none"]

Event(name, lead, dur) == [ev |-> name, lead |-> lead, dur |-> dur]

lead == leads_data[i]

\* lead['lead_id'] is available
HasLeadId(l) == "lead_id" \in DOMAIN l
\* Variant of GetLeadId: another default for a missing id.
GetLeadId_OtherDefault(l) == IF HasLeadId(l) THEN l.lead_id ELSE -1

\* lead.get('lead_id', 0)
GetLeadId(l) == IF HasLeadId(l) THEN l.lead_id ELSE 0

Init ==
    /\ api_key \in ApiKeys
    /\ mode \in {"single", "batch"}
    /\ leads_data \in SeqsUpTo(Leads, MaxLeads)
    /\ mode = "single" => Len(leads_data) = 1
    /\ pc = "start"
    /\ i = 0
    /\ attempt_number = 0
    /\ hist = <<>>
    /\ outcome = NoOutcome
    /\ eval_ret = NoRet
    /\ results = <<>>
    /\ call_status = "running"
    /\ log = <<>>
    /\ response = NoResponse
    /\ health = NoHealth

\* ------------------------------------------------------------------------
\* evaluate_product_relevancy
\* ------------------------------------------------------------------------
\* Variant of KeyMissing: "if api_key is None".
KeyMissing_NoneOnly(key) == key = "None"

\* "if not api_key": None and the empty string are both falsy.
KeyMissing(key) == key \in {"None", ""}

\* Lines 32-45: read the credential; raise ValueError when it is missing,
\* otherwise build the client and the prompt and enter _invoke_model.
CheckKey ==
    /\ pc = "check_key"
    /\ IF KeyMissing(api_key)
       THEN /\ eval_ret' = Raised("ValueError")
            /\ pc' = "eval_done"
       ELSE /\ eval_ret' = eval_ret
            /\ pc' = "invoke"
    /\ UNCHANGED <<response, health, api_key, mode, leads_data, i,
                   attempt_number, hist, outcome,
                   results, call_status, log>>

\* Variant of InvokeModel: an exception the retry predicate rejects is not
\* caught at line 100 and leaves evaluate_product_relevancy.
InvokeModel_Propagate ==
    /\ pc = "invoke"
    /\ \E o \in Outcomes :
        /\ outcome' = o
        /\ hist' = Append(hist, o)
        /\ attempt_number' = attempt_number + 1
        /\ log' = Append(log, Event("attempt", i, 0))
        /\ IF o.kind # "raise"
           THEN pc' = "extract" /\ eval_ret' = eval_ret
           ELSE IF ShouldRetry(o.exc)
           THEN pc' = "after" /\ eval_ret' = eval_ret
           ELSE pc' = "eval_done" /\ eval_ret' = Raised(o.exc)
    /\ UNCHANGED <<response, health, api_key, mode, leads_data, i, results,
                   call_status>>

\* Lines 78-87 under the retry decorator: one attempt of model.invoke(prompt).
\* A result goes to the extraction; an exception the retry predicate accepts
\* goes to the after callback; any other exception leaves _invoke_model and is
\* caught at line 100, which returns 0.0.
InvokeModel ==
    /\ pc = "invoke"
    /\ \E o \in Outcomes :
        /\ outcome' = o
        /\ hist' = Append(hist, o)
        /\ attempt_number' = attempt_number + 1
        /\ log' = Append(log, Event("attempt", i, 0))
        /\ IF o.kind # "raise"
           THEN pc' = "extract" /\ eval_ret' = eval_ret
           ELSE IF ShouldRetry(o.exc)
           THEN pc' = "after" /\ eval_ret' = eval_ret
           ELSE pc' = "eval_done" /\ eval_ret' = Returned(Zero)
    /\ UNCHANGED <<response, health, api_key, mode, leads_data, i, results,
                   call_status>>

\* Line 76: the after callback sleeps 2 after an attempt the retry predicate
\* accepted; then the stop condition is checked: when it holds, tenacity
\* raises RetryError, which line 100 catches and turns into 0.0.
AfterCallback ==
    /\ pc = "after"
    /\ log' = Append(log, Event("after_sleep", i, AfterSleep))
    /\ IF ShouldStop(attempt_number)
       THEN pc' = "eval_done" /\ eval_ret' = Returned(Zero)
       ELSE pc' = "wait" /\ eval_ret' = eval_ret
    /\ UNCHANGED <<response, health, api_key, mode, leads_data, i,
                   attempt_number, hist, outcome,
                   results, call_status>>

\* Variant of WaitBackoff: the backoff value without its floor and ceiling.
WaitBackoff_Unclamped ==
    /\ pc = "wait"
    /\ log' = Append(log, Event("wait_sleep", i,
                                WaitMultiplier * Pow2(attempt_number - 1)))
    /\ pc' = "invoke"
    /\ UNCHANGED <<response, health, api_key, mode, leads_data, i,
                   attempt_number, hist, outcome,
                   eval_ret, results, call_status>>

\* Line 74: the backoff sleep before the next attempt.
WaitBackoff ==
    /\ pc = "wait"
    /\ log' = Append(log, Event("wait_sleep", i, WaitExponential(attempt_number)))
    /\ pc' = "invoke"
    /\ UNCHANGED <<response, health, api_key, mode, leads_data, i,
                   attempt_number, hist, outcome,
                   eval_ret, results, call_status>>

\* Lines 93-102 applied to a returned message: float(result.content.strip())
\* clamped to [0, 10]; ValueError gives 0.0; content that is not a string has
\* no strip(), the AttributeError is caught at line 100 and gives 0.0.
ScoreOf(o) ==
    IF o.kind = "nontext" THEN Zero
    ELSE LET score == ParseFloat(strip(o.text))
         IN  IF score.kind = "ValueError" THEN Zero ELSE Clamp(score)

ExtractScore ==
    /\ pc = "extract"
    /\ eval_ret' = Returned(ScoreOf(outcome))
    /\ pc' = "eval_done"
    /\ UNCHANGED <<response, health, api_key, mode, leads_data, i,
                   attempt_number, hist, outcome,
                   results, call_status, log>>

\* Single mode: evaluate_product_relevancy is called once, for the one lead;
\* the call starts with fresh locals.
SingleCall ==
    /\ mode = "single"
    /\ pc = "start"
    /\ i' = 1
    /\ pc' = "check_key"
    /\ log' = Append(log, Event("eval", 1, 0))
    /\ attempt_number' = 0
    /\ hist' = <<>>
    /\ outcome' = NoOutcome
    /\ eval_ret' = NoRet
    /\ UNCHANGED <<response, health, api_key, mode, leads_data, results,
                   call_status>>

\* Single mode: the call ends, with its value or with its exception; its
\* locals are gone.
SingleEnd ==
    /\ mode = "single"
    /\ pc = "eval_done"
    /\ pc' = "done"
    /\ call_status' = IF eval_ret.kind = "raise" THEN "raised" ELSE "returned"
    /\ attempt_number' = 0
    /\ hist' = <<>>
    /\ outcome' = NoOutcome
    /\ UNCHANGED <<response, health, api_key, mode, leads_data, i, eval_ret,
                   results, log>>

\* ------------------------------------------------------------------------
\* evaluate_multiple_leads
\* ------------------------------------------------------------------------
\* The dict appended for the current lead.
LeadScore(id, score) == [lead_id |-> id, relevance_score |-> score]

\* Variant of BatchNextLead: the loop goes on to the next lead as soon as the
\* evaluation ended, before its result is recorded.
BatchNextLead_Early ==
    /\ mode = "batch"
    /\ pc \in {"loop", "start", "eval_done"}
    /\ i < Len(leads_data)
    /\ i' = i + 1
    /\ pc' = "check_key"
    /\ log' = Append(log, Event("eval", i + 1, 0))
    /\ attempt_number' = 0
    /\ hist' = <<>>
    /\ outcome' = NoOutcome
    /\ eval_ret' = NoRet
    /\ UNCHANGED <<response, health, api_key, mode, leads_data, results,
                   call_status>>

\* Lines 133-136: the loop takes the next lead and calls
\* evaluate_product_relevancy for it; the call starts with fresh locals.
BatchNextLead ==
    /\ mode = "batch"
    /\ pc = "loop" \/ pc = "start"
    /\ i < Len(leads_data)
    /\ i' = i + 1
    /\ pc' = "check_key"
    /\ log' = Append(log, Event("eval", i + 1, 0))
    /\ attempt_number' = 0
    /\ hist' = <<>>
    /\ outcome' = NoOutcome
    /\ eval_ret' = NoRet
    /\ UNCHANGED <<response, health, api_key, mode, leads_data, results,
                   call_status>>

\* Variant of PauseDue: the pause is also taken after the last lead.
PauseDue_AfterLast(idx, n) == idx <= n

\* "if i < len(leads_data) - 1", with idx = i + 1
PauseDue(idx, n) == idx < n

\* Variant of BatchAppend: the exception handler appends nothing.
BatchAppend_DropFailed ==
    /\ mode = "batch"
    /\ pc = "eval_done"
    /\ IF eval_ret.kind = "value" /\ HasLeadId(lead)
       THEN /\ results' = Append(results, [lead_id |-> lead.lead_id,
                                           relevance_score |-> eval_ret.val])
            /\ log' = Append(log, Event("append", i, 0))
            /\ pc' = IF i < Len(leads_data) THEN "pause" ELSE "loop"
       ELSE /\ results' = results
            /\ log' = Append(log, Event("except", i, 0))
            /\ pc' = "loop"
    /\ attempt_number' = 0
    /\ hist' = <<>>
    /\ outcome' = NoOutcome
    /\ UNCHANGED <<response, health, api_key, mode, leads_data, i, eval_ret,
                   call_status>>

\* Variant of BatchAppend: the exception handler reuses the score left over
\* from the previous iteration of the loop.
BatchAppend_StaleScore ==
    /\ mode = "batch"
    /\ pc = "eval_done"
    /\ IF eval_ret.kind = "value" /\ HasLeadId(lead)
       THEN /\ results' = Append(results, LeadScore(lead.lead_id, eval_ret.val))
            /\ log' = Append(log, Event("append", i, 0))
            /\ pc' = IF PauseDue(i, Len(leads_data)) THEN "pause" ELSE "loop"
       ELSE /\ results' = Append(results,
                               LeadScore(GetLeadId(lead),
                                         IF results = <<>> THEN Zero
                                         ELSE results[Len(results)].relevance_score))
            /\ log' = Append(log, Event("except", i, 0))
            /\ pc' = "loop"
    /\ attempt_number' = 0
    /\ hist' = <<>>
    /\ outcome' = NoOutcome
    /\ UNCHANGED <<response, health, api_key, mode, leads_data, i, eval_ret,
                   call_status>>

\* Lines 138-153 after the evaluation of the current lead ended.
\*   It returned a score: the result dict is built from lead['lead_id'] and
\*   appended, and the pause is due unless this is the last lead.
\*   It raised, or lead['lead_id'] raised KeyError: the handler appends
\*   lead.get('lead_id', 0) with 0.0 and the loop goes on without pause.
\* The locals of the finished evaluate_product_relevancy call are gone.
BatchAppend ==
    /\ mode = "batch"
    /\ pc = "eval_done"
    /\ IF eval_ret.kind = "value" /\ HasLeadId(lead)
       THEN /\ results' = Append(results, LeadScore(lead.lead_id, eval_ret.val))
            /\ log' = Append(log, Event("append", i, 0))
            /\ pc' = IF PauseDue(i, Len(leads_data)) THEN "pause" ELSE "loop"
       ELSE /\ results' = Append(results, LeadScore(GetLeadId(lead), Zero))
            /\ log' = Append(log, Event("except", i, 0))
            /\ pc' = "loop"
    /\ attempt_number' = 0
    /\ hist' = <<>>
    /\ outcome' = NoOutcome
    /\ UNCHANGED <<response, health, api_key, mode, leads_data, i, eval_ret,
                   call_status>>

\* Line 146: time.sleep(2) between two leads.
BatchPause ==
    /\ mode = "batch"
    /\ pc = "pause"
    /\ log' = Append(log, Event("pause", i, LeadPause))
    /\ pc' = "loop"
    /\ UNCHANGED <<response, health, api_key, mode, leads_data, i,
                   attempt_number, hist, outcome,
                   eval_ret, results, call_status>>

\* Variant of BatchReturn: the return statement sits inside the loop body.
BatchReturn_InsideLoop ==
    /\ mode = "batch"
    /\ pc = "loop" \/ pc = "start"
    /\ i >= 1 \/ i = Len(leads_data)
    /\ pc' = "done"
    /\ call_status' = "returned"
    /\ UNCHANGED <<response, health, api_key, mode, leads_data, i,
                   attempt_number, hist, outcome, eval_ret, results, log>>

\* Line 156: the loop is over, the results are returned.
BatchReturn ==
    /\ mode = "batch"
    /\ pc = "loop" \/ pc = "start"
    /\ i = Len(leads_data)
    /\ pc' = "done"
    /\ call_status' = "returned"
    /\ UNCHANGED <<response, health, api_key, mode, leads_data, i,
                   attempt_number, hist, outcome,
                   eval_ret, results, log>>

\* ------------------------------------------------------------------------
\* HTTP layer (src/app.py)
\* ------------------------------------------------------------------------
\* The request passed validation: LeadInfo requires lead_id, so every lead
\* dict built by lead.dict() has the key.
ValidRequest == \A k \in 1..Len(leads_data) : HasLeadId(leads_data[k])

\* SingleLeadResponse(lead_id, relevance_score, lead_name)
SingleLeadResponse(l, score) ==
    <<[lead_id |-> l.lead_id, relevance_score |-> score, lead_name |-> l.name]>>

\* Variant of HandlerRespond: an exception is answered like a zero score.
HandlerRespond_Swallow ==
    /\ pc = "done"
    /\ ValidRequest
    /\ response' =
           [status |-> 200, detail |-> "",
            body |-> IF mode = "single"
                     THEN SingleLeadResponse(leads_data[1],
                              IF call_status = "raised" THEN Zero ELSE eval_ret.val)
                     ELSE results]
    /\ pc' = "responded"
    /\ UNCHANGED <<health, api_key, mode, leads_data, i, attempt_number, hist,
                   outcome, eval_ret, results, call_status, log>>

\* evaluate_single_lead (lines 56-64) and evaluate_multiple_leads_endpoint
\* (lines 72-76) after the evaluator call ended: the response model built from
\* the result, or HTTPException(500, detail=str(e)).
HandlerRespond ==
    /\ pc = "done"
    /\ ValidRequest
    /\ response' =
           IF call_status = "raised"
           THEN [status |-> 500, detail |-> ExcMessage(eval_ret.exc), body |-> <<>>]
           ELSE [status |-> 200, detail |-> "",
                 body |-> IF mode = "single"
                          THEN SingleLeadResponse(leads_data[1], eval_ret.val)
                          ELSE results]
    /\ pc' = "responded"
    /\ UNCHANGED <<health, api_key, mode, leads_data, i, attempt_number, hist,
                   outcome, eval_ret, results, call_status, log>>

Next ==
    \/ SingleCall
    \/ CheckKey
    \/ InvokeModel
    \/ AfterCallback
    \/ WaitBackoff
    \/ ExtractScore
    \/ SingleEnd
    \/ BatchNextLead
    \/ BatchAppend
    \/ BatchPause
    \/ BatchReturn
    \/ HandlerRespond

Spec == Init /\ [][Next]_vars

\* The steps of Next other than the score extraction.
CallSteps ==
    \/ SingleCall
    \/ CheckKey
    \/ InvokeModel
    \/ AfterCallback
    \/ WaitBackoff
    \/ SingleEnd
    \/ BatchNextLead
    \/ BatchAppend
    \/ BatchPause
    \/ BatchReturn
    \/ HandlerRespond

\* The score extraction seen through pc only: under Next the steps from
\* "extract" to "eval_done" are exactly the ExtractScore steps, and
\* ExtractScore is enabled exactly when pc = "extract".
ExtractEnds == pc = "extract" /\ pc' = "eval_done"

\* Every external invocation eventually returns or fails, every sleep ends
\* and the interpreter keeps running the call (lines 78-102 and 133-156 have
\* no blocking point other than model.invoke and time.sleep): a step that can
\* be taken is eventually taken.
FairSpec == Spec /\ WF_vars(CallSteps) /\ WF_pc(ExtractEnds)

\* ------------------------------------------------------------------------
\* Score extraction on its own: evaluate_product_relevancy at line 93, after
\* a first attempt that returned a text, for every text of ExtractTexts.
\* ------------------------------------------------------------------------
TextAlphabet == {"7", "5", "1", "0", ".", "-", " ", "e"}

ExtractTexts ==
    SeqsUpTo(TextAlphabet, MaxTextLen)
    \cup ResponseTexts
    \cup { <<"7", ".", "5">>,
           <<"N", "a", "N">>,
           <<"i", "n", "f">>,
           <<"-", "i", "n", "f">>,
           <<"I", "n", "f", "i", "n", "i", "t", "y">>,
           <<"1", "_", "0">>,
           <<"+", "2", ".", "5", "e", "-", "1">>,
           <<"\t", "1", "0", ".", "0", "0", "1", " ">>,
           <<"7", ",", "5">>,
           <<"7", ".", "5", "/", "1", "0">> }

ExtractInit ==
    /\ api_key = "sk-key"
    /\ mode = "single"
    /\ leads_data \in {<<l>> : l \in [name : {"Ann"}, lead_id : LeadIds]}
    /\ pc = "extract"
    /\ i = 1
    /\ attempt_number = 1
    /\ outcome \in [kind : {"text"}, text : ExtractTexts, exc : {"none"}]
    /\ hist = <<outcome>>
    /\ eval_ret = NoRet
    /\ results = <<>>
    /\ call_status = "running"
    /\ log = <<Event("eval", 1, 0), Event("attempt", 1, 0)>>
    /\ response = NoResponse
    /\ health = NoHealth

ExtractNext ==
    \/ ExtractScore
    \/ SingleEnd
    \/ HandlerRespond

ExtractSpec == ExtractInit /\ [][ExtractNext]_vars

\* ------------------------------------------------------------------------
\* The server's event loop with a concurrent GET /health
\* ------------------------------------------------------------------------
\* The three handlers are coroutines (async def) run by one event loop.  The
\* two evaluation handlers call the evaluator directly: model.invoke and
\* time.sleep are blocking calls, there is no await between the start of the
\* handler and its response, so the loop runs nothing else in between.
LoopIdle == pc \in {"start", "responded"}

\* A client sends GET /health; the connection waits for the event loop.
HealthArrive ==
    /\ health.state = "none"
    /\ health' = [state |-> "pending", body |-> "none"]
    /\ UNCHANGED <<response, api_key, mode, leads_data, pc, i, attempt_number,
                   hist, outcome, eval_ret, results, call_status, log>>

\* health_check (lines 78-83), run by the event loop when it is free.
HealthCheck ==
    /\ health.state = "pending"
    /\ LoopIdle
    /\ health' = [state |-> "answered", body |-> "healthy"]
    /\ UNCHANGED <<response, api_key, mode, leads_data, pc, i, attempt_number,
                   hist, outcome, eval_ret, results, call_status, log>>

ServerInit == Init /\ ValidRequest

ServerNext ==
    \/ SingleCall
    \/ CheckKey
    \/ InvokeModel
    \/ AfterCallback
    \/ WaitBackoff
    \/ ExtractScore
    \/ SingleEnd
    \/ BatchNextLead
    \/ BatchAppend
    \/ BatchPause
    \/ BatchReturn
    \/ HandlerRespond
    \/ HealthArrive
    \/ HealthCheck

ServerSpec == ServerInit /\ [][ServerNext]_vars

TypeOK ==
    /\ api_key \in ApiKeys
    /\ mode \in {"single", "batch"}
    /\ pc \in {"start", "check_key", "invoke", "after", "wait", "extract",
               "eval_done", "pause", "loop", "done", "responded"}
    /\ i \in 0..Len(leads_data)
    /\ attempt_number \in 0..MaxAttempts
    /\ call_status \in {"running", "returned", "raised"}
    /\ response.status \in {0, 200, 500}
    /\ health.state \in {"none", "pending", "answered"}

\* ------------------------------------------------------------------------
\* Properties
\* ------------------------------------------------------------------------
\* Number of log events of one kind, for one lead and in all.
CountEv(name, j) ==
    Cardinality({k \in 1..Len(log) : log[k].ev = name /\ log[k].lead = j})
CountAll(name) ==
    Cardinality({k \in 1..Len(log) : log[k].ev = name})

\* The credential is unset or empty.
CredentialMissing == api_key \in {"None", ""}

\* 0 <= v <= 10
InRange(v) ==
    /\ v.kind = "fin"
    /\ v.den > 0
    /\ 0 <= v.num
    /\ v.num <= 10 * v.den

\* The attempt failed with one of the exception classes of S.
Failed(o, S) == o.kind = "raise" /\ o.exc \in S

\* The response is not a number: no text at all, a text float() rejects, or
\* the text nan.
Malformed(o) ==
    \/ o.kind = "nontext"
    \/ /\ o.kind = "text"
       /\ ParseFloat(strip(o.text)).kind \in {"ValueError", "nan"}

\* C1: whenever evaluate_product_relevancy returns a value, the value lies in
\* [0, 10]; and when the model output was malformed or the invocation failed,
\* the value is exactly 0.0.
C1_ScoreInRangeAndZeroOnFailure ==
    eval_ret.kind = "value" =>
        /\ InRange(eval_ret.val)
        /\ (Malformed(outcome) \/ outcome.kind = "raise") => eval_ret.val = Zero

\* C2: evaluate_multiple_leads returns exactly one result per input lead, the
\* k-th result carrying the lead_id of the k-th lead; while it runs, the
\* results are those of the leads handled so far.
C2_OneResultPerLeadInOrder ==
    mode = "batch" =>
        /\ Len(results) <= Len(leads_data)
        /\ pc \in {"loop", "pause", "done"} => Len(results) = i
        /\ call_status = "returned" => Len(results) = Len(leads_data)
        /\ \A k \in 1..Len(results) :
               "lead_id" \in DOMAIN leads_data[k]
                   => results[k].lead_id = leads_data[k].lead_id

C2_Witness ==
    /\ mode = "batch"
    /\ call_status = "returned"
    /\ Len(leads_data) = 2
    /\ Len(results) = 2
    /\ CountEv("except", 1) = 1
    /\ CountEv("except", 2) = 1
    /\ results[1].lead_id = 2
    /\ results[2].lead_id = 1

\* C3: with a credential present, two transient failures followed by a
\* success make exactly 3 attempts and the returned score is the one of the
\* successful response; three transient failures in a row make exactly 3
\* attempts and the evaluator returns 0.0 instead of raising.
C3_RetryBehaviour ==
    (Len(hist) >= 3 /\ Failed(hist[1], TransientErrors)
                    /\ Failed(hist[2], TransientErrors)) =>
        /\ Len(hist) = 3
        /\ attempt_number = 3
        /\ CountEv("attempt", i) = 3
        /\ hist[3].kind = "text" =>
               \/ pc = "extract"
               \/ pc = "eval_done" /\ eval_ret = Returned(ScoreOf(hist[3]))
        /\ Failed(hist[3], TransientErrors) =>
               \/ pc = "after"
               \/ pc = "eval_done" /\ eval_ret = Returned(Zero)

C3_Witness ==
    /\ pc = "eval_done"
    /\ Len(hist) = 3
    /\ Failed(hist[1], {"RateLimitError"})
    /\ Failed(hist[2], {"APIConnectionError"})
    /\ hist[3].kind = "text"
    /\ hist[3].text = <<" ", "7", ".", "5", "\n">>
    /\ eval_ret = Returned(Fin(75, 10))
    /\ CountEv("attempt", i) = 3

\* C4: a first attempt that fails with a non-transient kind of upstream
\* failure (malformed request, authentication failure, any exception other
\* than rate limiting or a temporary upstream error) is not retried: exactly
\* 1 attempt occurs and the evaluator returns 0.0.
C4_NonTransientNotRetried ==
    (Len(hist) >= 1 /\ Failed(hist[1], NonTransientErrors)) =>
        /\ Len(hist) = 1
        /\ CountEv("attempt", i) = 1
        /\ pc = "eval_done"
        /\ eval_ret = Returned(Zero)

\* C5: in a batch, the evaluation of every lead after the first is directly
\* preceded by a pause of 2 taken after the previous lead, whatever the
\* outcome of the previous lead's evaluation; no pause follows the last lead.
C5_PauseBetweenLeads ==
    mode = "batch" =>
        /\ \A k \in 1..Len(log) :
               (log[k].ev = "eval" /\ log[k].lead > 1) =>
                   /\ k > 1
                   /\ log[k - 1] = Event("pause", log[k].lead - 1, 2)
        /\ \A k \in 1..Len(log) :
               log[k].ev = "pause" => log[k].lead < Len(leads_data)

\* C6: a batch of N leads calls the single-lead evaluation once per lead, N
\* times when it returns, and takes at most N-1 pauses (none for N <= 1).
C6_EvaluationAndPauseCounts ==
    mode = "batch" =>
        /\ \A j \in 1..Len(leads_data) :
               CountEv("eval", j) = IF j <= i THEN 1 ELSE 0
        /\ CountAll("eval") = i
        /\ call_status = "returned" => CountAll("eval") = Len(leads_data)
        /\ CountAll("pause") <= (IF Len(leads_data) = 0 THEN 0
                                 ELSE Len(leads_data) - 1)
        /\ \A k \in 1..Len(log) : log[k].ev = "pause" => log[k].dur = 2

C6_Witness ==
    /\ mode = "batch"
    /\ call_status = "returned"
    /\ Len(leads_data) = 2
    /\ CountAll("eval") = 2
    /\ CountAll("pause") = 1
    /\ CountEv("except", 2) = 1

\* C7: when the evaluation of a lead of a batch raises, that lead's result is
\* its lead_id (0 when the lead has none) with score 0.0, the later leads are
\* still evaluated, and evaluate_multiple_leads does not raise.
C7_FailureIsolation ==
    mode = "batch" =>
        /\ call_status # "raised"
        /\ \A j \in 1..Len(results) :
               CountEv("except", j) > 0 =>
                   results[j] =
                       [lead_id |-> IF "lead_id" \in DOMAIN leads_data[j]
                                    THEN leads_data[j].lead_id ELSE 0,
                        relevance_score |-> Zero]
        /\ (pc \in {"loop", "done"} /\ i >= 1 /\ eval_ret.kind = "raise") =>
               /\ Len(results) = i
               /\ CountEv("except", i) = 1
        /\ call_status = "returned" =>
               \A j \in 1..Len(leads_data) : CountEv("eval", j) = 1

C7_Witness ==
    /\ mode = "batch"
    /\ call_status = "returned"
    /\ Len(leads_data) = 2
    /\ "lead_id" \notin DOMAIN leads_data[1]
    /\ CountEv("except", 1) = 1
    /\ results[1] = [lead_id |-> 0, relevance_score |-> Zero]
    /\ CountEv("attempt", 2) >= 1
    /\ CountEv("append", 2) = 1
    /\ results[2].relevance_score = Fin(75, 10)

\* C8: when the credential is missing, no model invocation is ever attempted,
\* in a single-lead evaluation and for every lead of a batch.
C8_NoAttemptWithoutCredential ==
    CredentialMissing =>
        /\ CountAll("attempt") = 0
        /\ pc \notin {"invoke", "after", "wait", "extract"}
        /\ hist = <<>>

C8_Witness ==
    /\ CredentialMissing
    /\ mode = "batch"
    /\ call_status = "returned"
    /\ Len(leads_data) = 2
    /\ CountAll("eval") = 2
    /\ CountAll("attempt") = 0

\* C9: with the credential missing, neither a single-lead call nor a batch
\* call returns a score result: the configuration error reaches the caller.
C9_MissingCredentialSurfaces ==
    CredentialMissing =>
        ~(call_status = "returned" /\ (mode = "single" \/ results # <<>>))

\* C10: evaluate_product_relevancy raises if and only if the credential is
\* missing; with a credential present every outcome of the external call is
\* absorbed and a score is returned.
C10_RaisesIffCredentialMissing ==
    /\ pc = "eval_done" =>
           /\ eval_ret.kind \in {"value", "raise"}
           /\ eval_ret.kind = "raise" <=> CredentialMissing
    /\ eval_ret.kind = "raise" => eval_ret.exc = "ValueError"
    /\ (mode = "single" /\ pc = "done") =>
           /\ call_status = "raised" <=> CredentialMissing
           /\ call_status = "returned" <=> eval_ret.kind = "value"

C10_Witness ==
    /\ pc = "eval_done"
    /\ ~CredentialMissing
    /\ Len(hist) = 1
    /\ Failed(hist[1], {"RuntimeError"})
    /\ eval_ret = Returned(Zero)

\* C11: a GET /health request is answered with {status: "healthy"}, and a
\* health request that is pending while another request's evaluation waits on
\* the external call, backs off or paces can be answered during that wait:
\* the evaluation handler suspends and does not block the server.
C11_HealthAnsweredDuringEvaluation ==
    /\ health.state = "answered" => health.body = "healthy"
    /\ (health.state = "pending" /\ pc \in {"invoke", "after", "wait", "pause"})
           => ENABLED HealthCheck

\* C13: an exception of the evaluator that reaches a handler is answered with
\* status 500 and the exception message as detail; otherwise the handler
\* answers 200 with the evaluation result, which carries the request's
\* lead_id (and the lead's name on the single-lead path).
C13_HandlerMapsResultAndError ==
    /\ response.status = 500 <=> (pc = "responded" /\ call_status = "raised")
    /\ response.status = 200 <=> (pc = "responded" /\ call_status = "returned")
    /\ response.status = 500 =>
           /\ response.detail =
                  "OPENAI_API_KEY is not set in the environment variables."
           /\ response.body = <<>>
    /\ (response.status = 200 /\ mode = "single") =>
           response.body = <<[lead_id |-> leads_data[1].lead_id,
                              relevance_score |-> eval_ret.val,
                              lead_name |-> leads_data[1].name]>>
    /\ (response.status = 200 /\ mode = "batch") =>
           /\ Len(response.body) = Len(leads_data)
           /\ \A k \in 1..Len(leads_data) :
                  response.body[k].lead_id = leads_data[k].lead_id

C13_Witness ==
    /\ pc = "responded"
    /\ mode = "single"
    /\ call_status = "raised"
    /\ response.status = 500
    /\ CountAll("attempt") = 0

\* C14: in a batch the leads are handled strictly one after another: the log
\* never goes back to an earlier lead, the evaluation of lead j+1 starts only
\* directly after the result of lead j was recorded (or after the pause that
\* follows it), and while lead i is being evaluated exactly the i-1 results of
\* the earlier leads are in the list.
C14_StrictlySequential ==
    mode = "batch" =>
        /\ \A k \in 2..Len(log) :
               /\ log[k - 1].lead <= log[k].lead
               /\ log[k - 1].lead < log[k].lead =>
                      /\ log[k].ev = "eval"
                      /\ log[k].lead = log[k - 1].lead + 1
                      /\ log[k - 1].ev \in {"append", "except", "pause"}
               /\ log[k].ev = "pause" =>
                      /\ log[k - 1].ev = "append"
                      /\ log[k - 1].lead = log[k].lead
               /\ log[k].ev = "attempt" => log[k - 1].lead = log[k].lead
        /\ pc \in {"check_key", "invoke", "after", "wait", "extract", "eval_done"}
               => Len(results) = i - 1

C14_Witness ==
    /\ mode = "batch"
    /\ pc = "invoke"
    /\ i = 2
    /\ attempt_number = 0
    /\ CountEv("attempt", 1) = 3
    /\ CountEv("append", 1) = 1
    /\ CountEv("pause", 1) = 1
    /\ Len(results) = 1

\* The score the extraction rule assigns to a response text: 0.0 for a text
\* that is not a number, the number clamped to [0, 10] otherwise.
ClampedNumber(x) ==
    IF Less(x, Fin(0, 1)) THEN Fin(0, 1)
    ELSE IF Less(Fin(10, 1), x) THEN Fin(10, 1)
    ELSE x

\* C12: the trimmed response text maps to 0.0 when it does not parse as a
\* number and to the number clamped to [0, 10] when it does; "7.5" gives 7.5,
\* "12.0" gives 10, "-3" gives 0 and "excellent match" gives 0.  (For the text
\* nan, 0.0 and nan itself are both accepted as the value the rule gives.)
C12_ScoreExtraction ==
    (pc = "eval_done" /\ outcome.kind = "text") =>
        LET x == ParseFloat(strip(outcome.text))
            v == eval_ret.val
        IN  /\ x.kind = "ValueError" => v = Fin(0, 1)
            /\ x.kind = "nan" => v \in {Fin(0, 1), NaN}
            /\ x.kind \in {"fin", "inf"} => v = ClampedNumber(x)
            /\ outcome.text = <<"7", ".", "5">> => v = Fin(75, 10)
            /\ outcome.text = <<"1", "2", ".", "0">> => v = Fin(10, 1)
            /\ outcome.text = <<"-", "3">> => v = Fin(0, 1)
            /\ outcome.text = <<"e", "x", "c", "e", "l", "l", "e", "n", "t", " ",
                                "m", "a", "t", "c", "h">> => v = Fin(0, 1)

\* C15: a batch of N leads, once started, eventually returns its N results
\* after evaluating every lead, whatever the outcomes of the invocations
\* (each of which eventually returns or fails).
C15_BatchRunsToCompletion ==
    (mode = "batch") =>
        <>(/\ call_status = "returned"
           /\ Len(results) = Len(leads_data)
           /\ CountAll("eval") = Len(leads_data))

C15_Witness ==
    /\ mode = "batch"
    /\ call_status = "returned"
    /\ Len(leads_data) = 2
    /\ Len(results) = 2
    /\ CountEv("attempt", 1) = 3
    /\ CountEv("after_sleep", 1) = 3
    /\ CountEv("attempt", 2) = 2

\* The last three log events when attempt k + 1 is about to be made.
LastThree == SubSeq(log, Len(log) - 2, Len(log))

\* Attempt k of the current evaluation failed transiently and attempt k + 1
\* is about to be made.
BetweenAttempts ==
    /\ pc = "invoke"
    /\ attempt_number >= 1
    /\ Failed(hist[attempt_number], TransientErrors)

\* C16 as stated: between a transiently failed attempt k and attempt k + 1
\* the delay is the exponential backoff value for k (at least 4, at most 30)
\* followed by the fixed 2-unit pause, between 6 and 32 in total.
C16_BackoffThenPause ==
    BetweenAttempts =>
        /\ Len(log) >= 3
        /\ LastThree[1] = Event("attempt", i, 0)
        /\ LastThree[2] = Event("wait_sleep", i, WaitExponential(attempt_number))
        /\ LastThree[3] = Event("after_sleep", i, 2)
        /\ 4 <= LastThree[2].dur /\ LastThree[2].dur <= 30
        /\ 6 <= LastThree[2].dur + LastThree[3].dur
        /\ LastThree[2].dur + LastThree[3].dur <= 32

\* C16 amended: between a transiently failed attempt k and attempt k + 1 the
\* delay is the fixed 2-unit pause followed by the exponential backoff value
\* for k (at least 4, at most 30), between 6 and 32 in total: the pause comes
\* first, the backoff second.
C16_PauseThenBackoff ==
    BetweenAttempts =>
        /\ Len(log) >= 3
        /\ LastThree[1] = Event("attempt", i, 0)
        /\ LastThree[2] = Event("after_sleep", i, 2)
        /\ LastThree[3] = Event("wait_sleep", i, WaitExponential(attempt_number))
        /\ 4 <= LastThree[3].dur /\ LastThree[3].dur <= 30
        /\ 6 <= LastThree[2].dur + LastThree[3].dur
        /\ LastThree[2].dur + LastThree[3].dur <= 32

C16_Witness ==
    /\ BetweenAttempts
    /\ attempt_number = 2
    /\ Failed(hist[1], {"APIConnectionError"})
    /\ Failed(hist[2], {"RateLimitError"})
    /\ LastThree = <<Event("attempt", i, 0), Event("after_sleep", i, 2),
                     Event("wait_sleep", i, 4)>>

\* What one lead's record and the outcomes of its own attempts determine:
\* the score of the last attempt when it returned a message, 0.0 when it
\* failed or when no attempt was made; (0, 0.0) when the record has no
\* lead_id.
OwnResult(l, h) ==
    IF ~HasLeadId(l) THEN [lead_id |-> 0, relevance_score |-> Zero]
    ELSE [lead_id |-> l.lead_id,
          relevance_score |->
              IF h = <<>> THEN Zero
              ELSE IF h[Len(h)].kind = "raise" THEN Zero
              ELSE ScoreOf(h[Len(h)])]

\* C17: the result appended for lead i is a function of lead i's own record
\* and of the outcomes of lead i's own attempts alone, and no later step
\* changes a result already appended: the other leads of the batch, their
\* outcomes and their number have no influence on lead i's lead_id and
\* relevance_score.
C17_ResultDependsOnOwnLeadOnly ==
    [][IF mode = "batch" /\ pc = "eval_done"
       THEN results' = Append(results, OwnResult(leads_data[i], hist))
       ELSE results' = results]_vars

C17_Witness ==
    /\ mode = "batch"
    /\ pc = "eval_done"
    /\ i = 2
    /\ Len(results) = 1
    /\ results[1].relevance_score = Fin(10, 1)
    /\ CountEv("attempt", 1) = 1
    /\ Len(hist) = 3
    /\ Failed(hist[3], {"RateLimitError"})
    /\ eval_ret = Returned(Zero)

\* The outcome ends the evaluation's attempts: a success (a message came
\* back) or a failure of a non-retryable kind.
Decisive(o) == o.kind \in {"text", "nontext"} \/ Failed(o, NonTransientErrors)

\* C18: with a credential present, the number of attempts one evaluation
\* makes is min(3, position of the first outcome that is a success or a
\* non-retryable failure): no attempt follows such an outcome, there are never
\* more than 3 attempts, and a batch of N leads makes at most 3 * N attempts.
C18_AttemptCount ==
    (pc = "eval_done" /\ ~CredentialMissing) =>
        /\ 1 <= Len(hist) /\ Len(hist) <= 3
        /\ CountEv("attempt", i) = Len(hist)
        /\ \A p \in 1..(Len(hist) - 1) : ~Decisive(hist[p])
        /\ Len(hist) < 3 => Decisive(hist[Len(hist)])
        /\ CountAll("attempt") <= 3 * Len(leads_data)

\* C19: retry delays are taken only between two attempts: when the
\* evaluation ends after an attempt (a success, a failure that is not
\* retried, or the third failure), neither the backoff wait nor the 2-unit
\* pause has been taken since that attempt.
C19_NoDelayAfterLastAttempt ==
    (pc = "eval_done" /\ Len(hist) >= 1) =>
        log[Len(log)] = Event("attempt", i, 0)

====
